---- MODULE Spec2Model ----
(***************************************************************************)
(* Model of src/main.py: the naukri.com login automation.  One run of      *)
(* main(): credential check, click_naukri_login (driver creation, start    *)
(* page, login control, OTP flow, profile save, soft check, driver quit)   *)
(* and the process exit code.  The website, the browser and the mailbox    *)
(* are the environment: what a locator finds, what a poll returns and      *)
(* which command fails are inputs drawn with \E.                           *)
(***************************************************************************)
EXTENDS Integers, Sequences, FiniteSets, TLC

\* ------------------------------------------------------------------ bounds
\* Most words a modelled mail body is made of.
MaxWords == 2
\* Most messages a modelled mailbox holds besides its filler messages.
MaxMsgs == 2

\* ------------------------------------------------------- program constants
\* poll_interval default of fetch_otp_via_imap
PollInterval == 5
\* lower limit of the polling deadline: max(15, timeout)
MinDeadline == 15
\* lower limit of the timeout click_naukri_login passes: max(60, timeout)
MinOtpTimeout == 60
\* exit code of main on missing credentials
ExitMissingCreds == 2
\* exit code of main on completion
ExitOk == 0
\* exit code of the interpreter when an exception leaves main
ExitUncaught == 1
\* the code length the sort prefers
PreferredLen == 6
\* shortest and longest digit run the regular expression accepts
ReMinLen == 4
ReMaxLen == 8
\* how many of ALL messages one poll looks at: data[0].split()[-10:]
RecentCount == 10

\* ------------------------------------------------------------ environment
\* os.getenv yields the default when the variable is not set.
Unset == "<unset>"
None == "<none>"

getenv(env, name, default) ==
    IF env[name] = Unset THEN default ELSE env[name]

EmailValues == {Unset, "", "me@example.com"}
PasswordValues == {Unset, "", "app-pass"}
\* seconds one IMAP poll may take besides its sleep
PollTimes == {0, 5}
\* values of --timeout
TimeoutArgs == {20, 70}

Max(a, b) == IF a >= b THEN a ELSE b

\* ------------------------------------------------------------------- text
\* A text is a sequence of one-character strings.
DigitChars == {"1", "2"}
WordChars == DigitChars \cup {"a"}

IsDigit(c) == c \in DigitChars
IsWord(c) == c \in WordChars

\* \b at position i (between body[i-1] and body[i]); i ranges 1..Len+1
Boundary(body, i) ==
    LET before == i > 1 /\ IsWord(body[i - 1])
        after  == i <= Len(body) /\ IsWord(body[i])
    IN  before # after

AllDigits(body, i, k) ==
    /\ i + k - 1 <= Len(body)
    /\ \A j \in i..(i + k - 1) : IsDigit(body[j])

\* length matched by \b(\d{4,8})\b at position i, greedy; 0 when no match
MatchLen(body, i) ==
    LET ks == {k \in ReMinLen..ReMaxLen :
                 Boundary(body, i) /\ AllDigits(body, i, k) /\ Boundary(body, i + k)}
    IN  IF ks = {} THEN 0 ELSE CHOOSE k \in ks : \A m \in ks : m <= k

\* re.findall(r"\b(\d{4,8})\b", body_text): leftmost, non-overlapping
RECURSIVE findall(_, _)
findall(body, i) ==
    IF i > Len(body) THEN <<>>
    ELSE LET k == MatchLen(body, i)
         IN  IF k = 0 THEN findall(body, i + 1)
             ELSE <<SubSeq(body, i, i + k - 1)>> \o findall(body, i + k)

Abs(x) == IF x < 0 THEN -x ELSE x

\* key=lambda c: (abs(len(c) - 6), -len(c)), compared lexicographically
KeyLess(c, d) ==
    LET a1 == Abs(Len(c) - PreferredLen)
        a2 == Abs(Len(d) - PreferredLen)
    IN  a1 < a2 \/ (a1 = a2 /\ -Len(c) < -Len(d))

\* sorted(codes, key=...): stable, so equal keys keep their order
RECURSIVE InsertStable(_, _)
InsertStable(sorted, c) ==
    IF sorted = <<>> THEN <<c>>
    ELSE IF KeyLess(c, Head(sorted)) THEN <<c>> \o sorted
    ELSE <<Head(sorted)>> \o InsertStable(Tail(sorted), c)

RECURSIVE codes_sorted(_)
codes_sorted(codes) ==
    IF codes = <<>> THEN <<>>
    ELSE InsertStable(codes_sorted(SubSeq(codes, 1, Len(codes) - 1)),
                      codes[Len(codes)])

\* lines 397-401: the code one message body yields, <<>> when it holds none
ExtractCode(body) ==
    LET sorted == codes_sorted(findall(body, 1))
    IN  IF sorted = <<>> THEN <<>> ELSE sorted[1]

Run(d, n) == [i \in 1..n |-> d]

\* the words mail bodies are made of: a 4-digit run, two 6-digit runs, a
\* 7-digit run and a 6-digit run glued to a letter
Words ==
    {Run("1", 4), Run("1", 6), Run("2", 6), Run("1", 7), <<"a">> \o Run("1", 6)}

RECURSIVE Join(_)
Join(ws) ==
    IF ws = <<>> THEN <<>>
    ELSE IF Len(ws) = 1 THEN ws[1]
    ELSE ws[1] \o <<" ">> \o Join(Tail(ws))

Bodies == {Join(ws) : ws \in UNION {[1..n -> Words] : n \in 0..MaxWords}}

\* ---------------------------------------------------------- header text
\* From headers, Subject headers and hints are sequences of one-character
\* strings, like the bodies.
UpperLetters ==
    <<"A", "B", "C", "D", "E", "F", "G", "H", "I", "J", "K", "L", "M",
      "N", "O", "P", "Q", "R", "S", "T", "U", "V", "W", "X", "Y", "Z">>
LowerLetters ==
    <<"a", "b", "c", "d", "e", "f", "g", "h", "i", "j", "k", "l", "m",
      "n", "o", "p", "q", "r", "s", "t", "u", "v", "w", "x", "y", "z">>

LowerChar(c) ==
    IF \E i \in DOMAIN UpperLetters : UpperLetters[i] = c
    THEN LowerLetters[CHOOSE i \in DOMAIN UpperLetters : UpperLetters[i] = c]
    ELSE c

\* str.lower()
lower(s) == [i \in DOMAIN s |-> LowerChar(s[i])]

\* sub in s
Contains(s, sub) ==
    \E i \in 0..(Len(s) - Len(sub)) : SubSeq(s, i + 1, i + Len(sub)) = sub

\* s.split(sep) for a one-character sep: the pieces between the separators,
\* empty pieces included
RECURSIVE SplitFrom(_, _, _, _)
SplitFrom(s, sep, i, piece) ==
    IF i > Len(s) THEN <<piece>>
    ELSE IF s[i] = sep THEN <<piece>> \o SplitFrom(s, sep, i + 1, <<>>)
    ELSE SplitFrom(s, sep, i + 1, Append(piece, s[i]))

split(s, sep) == SplitFrom(s, sep, 1, <<>>)

Range(f) == {f[i] : i \in DOMAIN f}

FromNaukri == <<"N", "a", "u", "k", "r", "i">>
FromBank == <<"b", "a", "n", "k">>
SubjectOTP == <<"O", "T", "P">>
SubjectHi == <<"h", "i">>
BodyCode4 == Run("1", 4)
BodyCode6 == Run("2", 6)
BodyNoCode == <<"a">>

\* line 243: os.getenv("OTP_SENDER", "naukri")
DefaultSender == <<"n", "a", "u", "k", "r", "i">>
\* line 244: os.getenv("OTP_SUBJECT", "otp|verification|login")
DefaultSubject ==
    <<"o", "t", "p", "|", "v", "e", "r", "i", "f", "i", "c", "a", "t", "i",
      "o", "n", "|", "l", "o", "g", "i", "n">>

\* values of OTP_SENDER: empty, the default
SenderHints == {<<>>, DefaultSender}
\* values of OTP_SUBJECT: empty, "otp|login", "OTP"
SubjectHints ==
    {<<>>, <<"o", "t", "p", "|", "l", "o", "g", "i", "n">>, <<"O", "T", "P">>}

\* ------------------------------------------------------------------ state
VARIABLES
    env,        \* os.environ: NAUKRI_EMAIL, NAUKRI_PASSWORD
    timeout,    \* args.timeout
    pc,         \* position of the script
    email,      \* click_naukri_login's email argument
    password,   \* click_naukri_login's password argument
    called,     \* click_naukri_login was called
    driver,     \* the driver of click_naukri_login, None before creation
    tried,      \* the list `tried` of click_naukri_login
    trace,      \* browser and mailbox steps done so far, in order
    search,     \* the last locator loop over a required element
    typedEmail, \* what start_otp_login typed into the email field
    imapLogins, \* the (user, password) pairs passed to M.login
    imapOpened, \* an IMAP connection was opened
    now,        \* time.time(), counted from the entry of fetch_otp_via_imap
    end_time,   \* end_time of fetch_otp_via_imap, 0 outside the function
    last_error, \* last_error of fetch_otp_via_imap, None outside the function
    lastPoll,   \* what the last poll of the mailbox gave
    body,       \* body_text of the message the returned code came from
    otp,        \* the code fetch_otp_via_imap returned
    failedAt,   \* source line of the statement that raised, 0 for none
    raised,     \* the class of the exception that step raised
    exc,        \* the exception propagating out of click_naukri_login
    mainRet,    \* <<v>> once main returned v
    exitCode,   \* <<c>> once the process exited with code c
    mailbox,    \* the INBOX one poll looks at and what its searches answer
    sender_hint,  \* sender_hint of fetch_otp_via_imap (OTP_SENDER)
    subject_hint, \* subject_hint of fetch_otp_via_imap (OTP_SUBJECT)
    scan,       \* what the last look at the mailbox did
    typedPassword, \* what pwd_el.send_keys of fill_credentials was given
    otpEntry    \* what fill_otp did to the page it has just left

vars == <<env, timeout, pc, email, password, called, driver, tried, trace,
          search, typedEmail, imapLogins, imapOpened, now, end_time,
          last_error, lastPoll, body, otp, failedAt, raised, exc, mainRet,
          exitCode, mailbox, sender_hint, subject_hint, scan, typedPassword,
          otpEntry>>

envVars == <<env, timeout>>
argVars == <<email, password, called>>
imapVars == <<imapLogins, imapOpened, now, end_time, last_error, lastPoll, body,
             otp>>
failVars == <<failedAt, raised, exc>>
exitVars == <<mainRet, exitCode>>
mailVars == <<mailbox, sender_hint, subject_hint, scan>>

\* the verify loop of fill_otp before it ran
NoVerify == [tried |-> <<>>, el |-> 0]

\* what fill_otp did: path "multi" or "single", inputs the number of OTP
\* boxes found, sent[i] what box i (or the single field) was given by
\* send_keys, verify the locators of the verify loop tried and the index of
\* the one clicked (0 for none)
NoEntry == [path |-> None, inputs |-> 0, sent |-> <<>>, verify |-> NoVerify]

\* an INBOX: msgs[i] is the message with sequence number i (a higher number
\* is a newer message), unseen the numbers without the \Seen flag,
\* unseenOk / allOk whether SEARCH UNSEEN / SEARCH ALL answers OK, badFetch
\* the numbers whose FETCH does not answer OK
NoMail ==
    [msgs |-> <<>>, unseen |-> {}, unseenOk |-> TRUE, allOk |-> TRUE,
     badFetch |-> {}]

\* what one look at the mailbox did: all whether SEARCH ALL was issued, ids
\* the candidate numbers, fetched the numbers fetched in fetch order,
\* skipped the numbers dropped by the hint filter, id the number of the
\* message the code came from (0 for none), code the code returned
NoScan ==
    [all |-> FALSE, ids |-> <<>>, fetched |-> <<>>, skipped |-> {}, id |-> 0,
     code |-> <<>>]

NoSearch == [step |-> None, n |-> 0, tried |-> <<>>, el |-> 0]

Init ==
    /\ env \in [NAUKRI_EMAIL : EmailValues, NAUKRI_PASSWORD : PasswordValues]
    /\ timeout \in TimeoutArgs
    /\ pc = "main"
    /\ email = None
    /\ password = None
    /\ called = FALSE
    /\ driver = None
    /\ tried = <<>>
    /\ trace = <<>>
    /\ search = NoSearch
    /\ typedEmail = None
    /\ imapLogins = {}
    /\ imapOpened = FALSE
    /\ now = 0
    /\ end_time = 0
    /\ last_error = None
    /\ lastPoll = None
    /\ body = <<>>
    /\ otp = <<>>
    /\ failedAt = 0
    /\ raised = None
    /\ exc = None
    /\ mainRet = <<>>
    /\ exitCode = <<>>
    /\ mailbox = NoMail
    /\ sender_hint = DefaultSender
    /\ subject_hint = DefaultSubject
    /\ scan = NoScan
    /\ typedPassword = None
    /\ otpEntry = NoEntry

\* ---------------------------------------------------------------- helpers
\* lines 204-211, 305-311, 429-435, 818-824, 845-851: try the locators in
\* list order; wait.until returns the element (break) or raises
\* TimeoutException (continue).  present is the set of locators that would
\* find an element.  tried lists each locator tried with what its wait
\* gave; el is the index of the locator whose element was kept, 0 for none.
RECURSIVE TryFrom(_, _, _, _)
TryFrom(n, present, i, done) ==
    IF i > n THEN [tried |-> done, el |-> 0]
    ELSE IF i \in present THEN [tried |-> Append(done, <<i, "found">>), el |-> i]
    ELSE TryFrom(n, present, i + 1, Append(done, <<i, "timeout">>))

\* variant of the locator loop without the break: every locator is tried
\* and the last element found is kept
RECURSIVE TryAll(_, _, _, _, _)
TryAll(n, present, i, done, el) ==
    IF i > n THEN [tried |-> done, el |-> el]
    ELSE IF i \in present
    THEN TryAll(n, present, i + 1, Append(done, <<i, "found">>), i)
    ELSE TryAll(n, present, i + 1, Append(done, <<i, "timeout">>), el)

TryLocators_nobreak(n, present) == TryAll(n, present, 1, <<>>, 0)

TryLocators(n, present) == TryFrom(n, present, 1, <<>>)

SearchRecord(step, n, present) ==
    LET r == TryLocators(n, present)
    IN  [step |-> step, n |-> n, tried |-> r.tried, el |-> r.el]

\* variants of the check of line 878: `and` for `or`; the email alone
CredsMissing_both(login_email, imap_pass) == login_email = "" /\ imap_pass = ""

CredsMissing_email_only(login_email, imap_pass) == login_email = ""

\* line 878: if not login_email or not imap_pass
CredsMissing(login_email, imap_pass) == login_email = "" \/ imap_pass = ""

\* variants of the handler of line 256: except Exception; no handler
OtpFlowCatches_all(e) == TRUE

OtpFlowCatches_none(e) == FALSE

\* line 256: except TimeoutException around the OTP flow
OtpFlowCatches(e) == e = "TimeoutException"

\* line 254: except TimeoutException around navigate_profile_and_save
ProfileCatches(e) == e = "TimeoutException"

\* variant of the order of the steps: the edit click is left out
Then_skip_edit(step) ==
    CASE step = "start_otp_login" -> "fetch_otp_via_imap"
      [] step = "poll" -> "fill_otp"
      [] step = "fill_otp" -> "nav_profile"
      [] step = "nav_profile" -> "nav_save"
      [] step = "nav_edit" -> "nav_save"
      [] step = "nav_save" -> "soft_check"
      [] step = "soft_check" -> "finally"

\* lines 234-259 and 776-862: the statement that follows a step of the OTP
\* flow when the step ends normally
Then(step) ==
    CASE step = "start_otp_login" -> "fetch_otp_via_imap"
      [] step = "poll" -> "fill_otp"
      [] step = "fill_otp" -> "nav_profile"
      [] step = "nav_profile" -> "nav_edit"
      [] step = "nav_edit" -> "nav_save"
      [] step = "nav_save" -> "soft_check"
      [] step = "soft_check" -> "finally"

\* an exception e raised at a source line: caught (the flow resumes at the
\* soft check, line 259) or propagating to the finally block (line 271)
Throw(line, e, isCaught) ==
    /\ failedAt' = line
    /\ raised' = e
    /\ exc' = IF isCaught THEN None ELSE e
    /\ pc' = IF isCaught THEN "soft_check" ELSE "finally"

\* ---------------------------------------------------------------- actions
\* main, lines 872-894: read the credentials, return 2 when one is missing,
\* otherwise call click_naukri_login
main ==
    /\ pc = "main"
    /\ LET login_email == getenv(env, "NAUKRI_EMAIL", "")
           imap_pass == getenv(env, "NAUKRI_PASSWORD", "")
       IN  IF CredsMissing(login_email, imap_pass)
           THEN /\ mainRet' = <<ExitMissingCreds>>
                /\ pc' = "exit"
                /\ UNCHANGED argVars
           ELSE /\ email' = login_email
                /\ password' = imap_pass
                /\ called' = TRUE
                /\ pc' = "create_driver"
                /\ UNCHANGED mainRet
    /\ UNCHANGED <<mailVars, typedPassword, otpEntry, envVars, driver, tried,
                   trace, search, typedEmail, imapVars, failVars, exitCode>>

\* click_naukri_login, lines 131-146: Chrome first, Safari when Chrome
\* raised WebDriverException; any other exception of get_chrome_driver and
\* every exception of get_safari_driver propagate
\* entries of the list tried: "chrome" / "safari" for a driver created,
\* f"chrome: {e.__class__.__name__}" for a failure
Created(browser) == <<browser>>
Failed(browser, e) == <<browser, e>>

\* variant of the handler of line 137: any exception of get_chrome_driver
\* leads to Safari
SafariFallback_any_failure(chromeOutcome) == chromeOutcome # "ok"

\* line 137: except WebDriverException around get_chrome_driver
SafariFallback(chromeOutcome) == chromeOutcome = "WebDriverException"

create_driver ==
    /\ pc = "create_driver"
    /\ \E chrome \in {"ok", "WebDriverException", "Exception"},
          safari \in {"ok", "WebDriverException", "Exception"} :
         IF chrome = "ok"
         THEN /\ driver' = "chrome"
              /\ tried' = <<Created("chrome")>>
              /\ pc' = "load_start_page"
              /\ UNCHANGED failVars
         ELSE IF ~SafariFallback(chrome)
         THEN /\ Throw(135, chrome, FALSE)
              /\ UNCHANGED <<driver, tried>>
         ELSE IF safari = "ok"
         THEN /\ driver' = "safari"
              /\ tried' = <<Failed("chrome", chrome), Created("safari")>>
              /\ pc' = "load_start_page"
              /\ UNCHANGED failVars
         ELSE IF safari = "WebDriverException"
         THEN /\ Throw(145, safari, FALSE)
              /\ tried' = <<Failed("chrome", chrome), Failed("safari", safari)>>
              /\ UNCHANGED driver
         ELSE /\ Throw(141, safari, FALSE)
              /\ tried' = <<Failed("chrome", chrome)>>
              /\ UNCHANGED driver
    /\ UNCHANGED <<mailVars, typedPassword, otpEntry, envVars, argVars, trace,
                   search, typedEmail, imapVars, exitVars>>

\* lines 147-194: load the start page, dismiss overlays (best effort, no
\* exception leaves try_click_css / try_click_xpath), take a screenshot and
\* look at the current URL
load_start_page ==
    /\ pc = "load_start_page"
    /\ \E getOk \in BOOLEAN, urlHasLogin \in BOOLEAN :
         IF ~getOk
         THEN /\ Throw(153, "WebDriverException", FALSE)
              /\ UNCHANGED trace
         ELSE /\ trace' = Append(trace, "get_start")
              /\ pc' = IF urlHasLogin THEN "start_otp_login" ELSE "locate_login"
              /\ UNCHANGED failVars
    /\ UNCHANGED <<mailVars, typedPassword, otpEntry, envVars, argVars,
                   driver, tried, search, typedEmail, imapVars, exitVars>>

\* lines 196-230: find the login link with four locators, raise the
\* TimeoutException when none finds it, otherwise scroll to it and click
locate_login ==
    /\ pc = "locate_login"
    /\ \E present \in SUBSET (1..4), cmdOk \in BOOLEAN :
         LET r == SearchRecord("login", 4, present)
         IN  /\ search' = r
             /\ IF r.el = 0
                THEN /\ Throw(213, "TimeoutException", FALSE)
                     /\ UNCHANGED trace
                ELSE IF ~cmdOk
                THEN /\ Throw(216, "WebDriverException", FALSE)
                     /\ UNCHANGED trace
                ELSE /\ trace' = Append(trace, "login_click")
                     /\ pc' = "start_otp_login"
                     /\ UNCHANGED failVars
    /\ UNCHANGED <<mailVars, typedPassword, otpEntry, envVars, argVars,
                   driver, tried, typedEmail, imapVars, exitVars>>

\* line 891: main passes use_google=False
use_google == FALSE

\* variant of the login step: the credential form when a password is given
LoginStep_credentials(google, pass) ==
    IF ~google /\ pass # "" THEN "fill_credentials" ELSE "start_otp_login"

\* lines 232-234: whatever use_google and password are, the login step of
\* click_naukri_login is start_otp_login; fill_credentials,
\* click_login_submit and google_sign_in are called nowhere
LoginStep(google, pass) == "start_otp_login"

\* start_otp_login, lines 278-349, called at line 234 inside the try of
\* line 233: click "Use OTP to Login" when present (best effort), find the
\* email field with four locators (TimeoutException when none finds it),
\* type the email, click Send OTP or press Enter (best effort), wait for the
\* OTP input (TimeoutException of the wait at line 343).  The first branch
\* is what the credential form would do (fill_credentials, lines 715 and
\* 722, then click_login_submit).
start_otp_login ==
    /\ pc = "start_otp_login"
    /\ IF LoginStep(use_google, password) = "fill_credentials"
       THEN /\ typedEmail' = email
            /\ typedPassword' = password
            /\ trace' = trace \o <<"fill_credentials", "click_login_submit">>
            /\ pc' = "soft_check"
            /\ UNCHANGED <<search, failVars>>
       ELSE /\ \E present \in SUBSET (1..4), cmdOk \in BOOLEAN, otpUi \in BOOLEAN :
              LET r == SearchRecord("email", 4, present)
              IN  /\ search' = r
                  /\ IF r.el = 0
                     THEN /\ Throw(313, "TimeoutException",
                                   OtpFlowCatches("TimeoutException"))
                          /\ UNCHANGED <<typedEmail, trace>>
                     ELSE IF ~cmdOk
                     THEN /\ Throw(318, "WebDriverException",
                                   OtpFlowCatches("WebDriverException"))
                          /\ UNCHANGED <<typedEmail, trace>>
                     ELSE IF ~otpUi
                     THEN /\ Throw(343, "TimeoutException",
                                   OtpFlowCatches("TimeoutException"))
                          /\ typedEmail' = email
                          /\ UNCHANGED trace
                     ELSE /\ typedEmail' = email
                          /\ trace' = Append(trace, "otp_requested")
                          /\ pc' = Then("start_otp_login")
                          /\ UNCHANGED failVars
            /\ UNCHANGED typedPassword
    /\ UNCHANGED <<mailVars, otpEntry, envVars, argVars, driver, tried,
                   imapVars, exitVars>>

\* lines 241-242: the IMAP user and password
ImapUser == getenv(env, "NAUKRI_EMAIL", email)
ImapPass == getenv(env, "NAUKRI_PASSWORD", password)

\* deadline of the polling loop, line 357
Deadline(t, fetchTimeout) == t + Max(MinDeadline, fetchTimeout)

\* lines 240-245 and 357-358: the arguments of fetch_otp_via_imap and its
\* deadline
fetch_otp_via_imap ==
    /\ pc = "fetch_otp_via_imap"
    /\ end_time' = Deadline(now, Max(MinOtpTimeout, timeout))
    /\ last_error' = None
    /\ pc' = "poll"
    /\ UNCHANGED <<mailVars, typedPassword, otpEntry, envVars, argVars,
                   driver, tried, trace, search, typedEmail, imapLogins,
                   imapOpened, now, lastPoll, body, otp, failVars, exitVars>>

\* variant of the loop condition: <= for <
PollAgain_inclusive(t, deadline) == t <= deadline

\* line 359: while time.time() < end_time
PollAgain(t, deadline) == t < deadline

\* lines 359-404, one iteration of the loop: connect, log in, look for a
\* message; return the code of the body found, or record the exception,
\* then sleep poll_interval.  took is the time the poll itself takes.  The
\* locals of the function end with its return.
poll ==
    /\ pc = "poll"
    /\ PollAgain(now, end_time)
    /\ imapOpened' = TRUE
    /\ \E took \in PollTimes :
         \/ \* connecting, the login, a search, a fetch or parsing raises:
            \* except Exception at line 402
            /\ last_error' = "error"
            /\ lastPoll' = "error"
            /\ imapLogins' = imapLogins \cup {<<ImapUser, ImapPass>>}
            /\ now' = now + took + PollInterval
            /\ UNCHANGED <<body, otp, trace, pc, end_time>>
         \/ \* the message read holds no code (or there is no message)
            /\ lastPoll' = "no_code"
            /\ imapLogins' = imapLogins \cup {<<ImapUser, ImapPass>>}
            /\ now' = now + took + PollInterval
            /\ {b \in Bodies : ExtractCode(b) = <<>>} # {}
            /\ UNCHANGED <<body, otp, trace, pc, end_time, last_error>>
         \/ \* the message read holds a code: return it (line 401)
            /\ pc' = Then("poll")
            /\ lastPoll' = "code"
            /\ \E b \in Bodies :
                 /\ body' = b
                 /\ ExtractCode(b) # <<>>
                 /\ otp' = ExtractCode(b)
            /\ imapLogins' = imapLogins \cup {<<ImapUser, ImapPass>>}
            /\ trace' = Append(trace, "otp_fetched")
            /\ now' = 0
            /\ end_time' = 0
            /\ last_error' = None
    /\ UNCHANGED <<mailVars, typedPassword, otpEntry, envVars, argVars,
                   driver, tried, search, typedEmail, failVars, exitVars>>

\* line 405: the deadline has passed
poll_timeout ==
    /\ pc = "poll"
    /\ ~PollAgain(now, end_time)
    /\ Throw(405, "TimeoutException",
             OtpFlowCatches("TimeoutException"))
    /\ now' = 0
    /\ end_time' = 0
    /\ last_error' = None
    /\ UNCHANGED <<mailVars, typedPassword, otpEntry, envVars, argVars,
                   driver, tried, trace, search, typedEmail, imapLogins,
                   imapOpened, lastPoll, body, otp, exitVars>>

\* ----------------------------------------------------- one look at INBOX
Messages ==
    [from : {FromNaukri, FromBank}, subject : {SubjectOTP, SubjectHi},
     body : {BodyCode4, BodyCode6, BodyNoCode}]

\* a read message of another sender without a code
Filler == [from |-> FromBank, subject |-> SubjectHi, body |-> BodyNoCode]

\* the mailboxes one poll may meet: up to MaxMsgs messages, none, the newest
\* or all of them unseen; then either every command answers OK, or
\* RecentCount newer filler messages follow, or SEARCH UNSEEN, SEARCH ALL
\* or the FETCH of the newest message does not answer OK
Mailboxes ==
    UNION {
      UNION {
        { [msgs |-> m, unseen |-> u, unseenOk |-> TRUE, allOk |-> TRUE,
           badFetch |-> {}],
          [msgs |-> m \o [i \in 1..RecentCount |-> Filler], unseen |-> u,
           unseenOk |-> TRUE, allOk |-> TRUE, badFetch |-> {}],
          [msgs |-> m, unseen |-> u, unseenOk |-> FALSE, allOk |-> TRUE,
           badFetch |-> {}],
          [msgs |-> m, unseen |-> u, unseenOk |-> TRUE, allOk |-> FALSE,
           badFetch |-> {}],
          [msgs |-> m, unseen |-> u, unseenOk |-> TRUE, allOk |-> TRUE,
           badFetch |-> {Len(m)} \ {0}] }
        : u \in {{}, {Len(m)} \ {0}, 1..Len(m)} }
      : m \in UNION {[1..n -> Messages] : n \in 0..MaxMsgs} }

\* data[0].split(): the numbers of S among 1..n, ascending
IdList(S, n) == SelectSeq([i \in 1..n |-> i], LAMBDA i : i \in S)

\* ids[-k:]
LastOf(ids, k) ==
    IF Len(ids) <= k THEN ids ELSE SubSeq(ids, Len(ids) - k + 1, Len(ids))

\* lines 365-369: UNSEEN first; ALL, cut to the last RecentCount, when that
\* gave no ids
SearchIds(mb) ==
    LET n == Len(mb.msgs)
        unseenIds == IF mb.unseenOk THEN IdList(mb.unseen, n) ELSE <<>>
    IN  IF unseenIds # <<>> THEN [all |-> FALSE, ids |-> unseenIds]
        ELSE [all |-> TRUE,
              ids |-> IF mb.allOk THEN LastOf(IdList(1..n, n), RecentCount)
                      ELSE <<>>]

\* lines 377-380: the message is dropped (continue) when a sender hint is
\* given, the lowered From does not hold the lowered hint, and not (a
\* subject hint is given and the lowered subject holds one of its pieces)
SkipMessage(sh, subh, from, subject) ==
    /\ sh # <<>>
    /\ ~Contains(lower(from), lower(sh))
    /\ ~(/\ subh # <<>>
         /\ \E h \in Range(split(subh, "|")) : Contains(lower(subject), h))

\* lines 370-401: for msg_id in reversed(ids); k is the position in ids of
\* the message looked at next, r what was done so far
RECURSIVE ScanFrom(_, _, _, _, _)
ScanFrom(mb, sh, subh, k, r) ==
    IF k = 0 THEN r
    ELSE LET id == r.ids[k]
             msg == mb.msgs[id]
             f == [r EXCEPT !.fetched = Append(@, id)]
         IN  IF id \in mb.badFetch
             THEN ScanFrom(mb, sh, subh, k - 1, f)
             ELSE IF SkipMessage(sh, subh, msg.from, msg.subject)
             THEN ScanFrom(mb, sh, subh, k - 1,
                           [f EXCEPT !.skipped = @ \cup {id}])
             ELSE IF ExtractCode(msg.body) # <<>>
             THEN [f EXCEPT !.id = id, !.code = ExtractCode(msg.body)]
             ELSE ScanFrom(mb, sh, subh, k - 1, f)

\* lines 365-401: one look at the mailbox
ScanMailbox(mb, sh, subh) ==
    LET found == SearchIds(mb)
    IN  ScanFrom(mb, sh, subh, Len(found.ids),
                 [NoScan EXCEPT !.all = found.all, !.ids = found.ids])

\* lines 359-404, one iteration of the loop against the mailbox: when the
\* connection and the login succeed the mailbox is looked at and the code
\* found is returned; without a code, or after an exception, the loop
\* sleeps poll_interval
mail_poll ==
    /\ pc = "poll"
    /\ PollAgain(now, end_time)
    /\ imapOpened' = TRUE
    /\ imapLogins' = imapLogins \cup {<<ImapUser, ImapPass>>}
    /\ \E took \in PollTimes, connected \in BOOLEAN :
         IF ~connected
         THEN /\ last_error' = "error"
              /\ lastPoll' = "error"
              /\ now' = now + took + PollInterval
              /\ UNCHANGED <<scan, body, otp, trace, pc, end_time>>
         ELSE LET r == ScanMailbox(mailbox, sender_hint, subject_hint)
              IN  /\ scan' = r
                  /\ IF r.code = <<>>
                     THEN /\ lastPoll' = "no_code"
                          /\ now' = now + took + PollInterval
                          /\ UNCHANGED <<body, otp, trace, pc, end_time,
                                         last_error>>
                     ELSE /\ pc' = Then("poll")
                          /\ lastPoll' = "code"
                          /\ body' = mailbox.msgs[r.id].body
                          /\ otp' = r.code
                          /\ trace' = Append(trace, "otp_fetched")
                          /\ now' = 0
                          /\ end_time' = 0
                          /\ last_error' = None
    /\ UNCHANGED <<mailbox, sender_hint, subject_hint, typedPassword,
                   otpEntry, envVars, argVars, driver, tried, search,
                   typedEmail, failVars, exitVars>>

\* numbers of OTP input boxes the page may show (line 412)
InputCounts == {0, 4, 6, 8}

\* which of the three verify locators become clickable: none, the first,
\* the last two, the last
VerifyClickable == {{}, {1}, {2, 3}, {3}}

\* characters str.strip() removes at both ends
WhiteSpace == {" "}

\* code.strip(), line 410
strip(s) ==
    LET keep == {i \in DOMAIN s : s[i] \notin WhiteSpace}
    IN  IF keep = {} THEN <<>>
        ELSE SubSeq(s, CHOOSE i \in keep : \A j \in keep : i <= j,
                       CHOOSE i \in keep : \A j \in keep : j <= i)

\* variant of the test of line 413 without the comparison of the lengths
UseMultiInput_any_inputs(nInputs, digits) == nInputs > 0

\* line 413: if inputs and len(inputs) >= len(digits)
UseMultiInput(nInputs, digits) == nInputs > 0 /\ nInputs >= Len(digits)

\* lines 414-419: for i, d in enumerate(digits): inputs[i].send_keys(d); the
\* send_keys number failK raises (0: none does), the boxes before it have
\* their digit
SendDigits(nInputs, digits, failK) ==
    [i \in 1..nInputs |->
        IF i <= Len(digits) /\ (failK = 0 \/ i < failK) THEN <<digits[i]>>
        ELSE <<>>]

\* fill_otp, lines 408-461, called at line 248: one digit per input box, or
\* the whole code into the single OTP field found with two locators
\* (TimeoutException when none finds it); then the first of three verify
\* locators that becomes clickable is clicked, none when all time out
fill_otp ==
    /\ pc = "fill_otp"
    /\ body' = <<>>
    /\ \E nInputs \in InputCounts, present \in SUBSET (1..2), failK \in 0..2,
          clickable \in VerifyClickable :
         LET digits == strip(otp)
             r == SearchRecord("single", 2, present)
             multi == UseMultiInput(nInputs, digits)
             fails == failK # 0 /\ (multi => failK <= Len(digits))
             entry == [path |-> IF multi THEN "multi" ELSE "single",
                       inputs |-> nInputs, sent |-> <<>>, verify |-> NoVerify]
         IN  /\ search' = IF multi THEN search ELSE r
             /\ IF ~multi /\ r.el = 0
                THEN /\ Throw(437, "TimeoutException",
                              OtpFlowCatches("TimeoutException"))
                     /\ otpEntry' = entry
                     /\ UNCHANGED trace
                ELSE IF fails
                THEN /\ Throw(IF multi THEN 419 ELSE 442, "WebDriverException",
                              OtpFlowCatches("WebDriverException"))
                     /\ otpEntry' =
                          [entry EXCEPT !.sent =
                              IF multi THEN SendDigits(nInputs, digits, failK)
                              ELSE <<>>]
                     /\ UNCHANGED trace
                ELSE /\ otpEntry' =
                          [entry EXCEPT !.sent =
                                           IF multi
                                           THEN SendDigits(nInputs, digits, 0)
                                           ELSE <<otp>>,
                                        !.verify = TryLocators(3, clickable)]
                     /\ trace' = Append(trace, "otp_filled")
                     /\ pc' = Then("fill_otp")
                     /\ UNCHANGED failVars
    /\ UNCHANGED <<mailVars, typedPassword, envVars, argVars, driver, tried,
                   typedEmail, imapLogins, imapOpened, now, end_time,
                   last_error, lastPoll, otp, exitVars>>

\* an exception raised inside navigate_profile_and_save passes the handler
\* of line 254 and then the handler of line 256
NavCatches(e) == ProfileCatches(e) \/ OtpFlowCatches(e)

\* variant without the fallback of lines 804-807
ProfileEvent_no_fallback(el) == "profile_click"

\* lines 787-807: the found link is clicked (clicked = True); with no link
\* found the profile URL is loaded
ProfileEvent(el) == IF el = 0 THEN "profile_get" ELSE "profile_click"

\* the browser command of the profile step that may fail: the scroll to the
\* found link (line 790) or the load of the profile URL (line 806)
ProfileCommandLine(el) == IF el = 0 THEN 806 ELSE 790

\* navigate_profile_and_save, lines 779-810, called at line 252: click
\* 'View profile' found with three locators, or load the profile URL
nav_profile ==
    /\ pc = "nav_profile"
    /\ otpEntry' = NoEntry
    /\ \E present \in SUBSET (1..3), cmdOk \in BOOLEAN :
         LET r == SearchRecord("profile", 3, present)
         IN  /\ search' = r
             /\ IF ~cmdOk
                THEN /\ Throw(ProfileCommandLine(r.el), "WebDriverException",
                              NavCatches("WebDriverException"))
                     /\ UNCHANGED trace
                ELSE /\ trace' = Append(trace, ProfileEvent(r.el))
                     /\ pc' = Then("nav_profile")
                     /\ UNCHANGED failVars
    /\ UNCHANGED <<mailVars, typedPassword, envVars, argVars, driver, tried,
                   typedEmail, imapVars, exitVars>>

\* lines 812-835: find the edit icon with two locators (TimeoutException
\* when none finds it), scroll to it and click
nav_edit ==
    /\ pc = "nav_edit"
    /\ \E present \in SUBSET (1..2), cmdOk \in BOOLEAN :
         LET r == SearchRecord("edit", 2, present)
         IN  /\ search' = r
             /\ IF r.el = 0
                THEN /\ Throw(826, "TimeoutException",
                              NavCatches("TimeoutException"))
                     /\ UNCHANGED trace
                ELSE IF ~cmdOk
                THEN /\ Throw(828, "WebDriverException",
                              NavCatches("WebDriverException"))
                     /\ UNCHANGED trace
                ELSE /\ trace' = Append(trace, "edit_click")
                     /\ pc' = Then("nav_edit")
                     /\ UNCHANGED failVars
    /\ UNCHANGED <<mailVars, typedPassword, otpEntry, envVars, argVars,
                   driver, tried, typedEmail, imapVars, exitVars>>

\* lines 837-862: find the Save button with four locators (TimeoutException
\* when none finds it), scroll to it and click
nav_save ==
    /\ pc = "nav_save"
    /\ \E present \in SUBSET (1..4), cmdOk \in BOOLEAN :
         LET r == SearchRecord("save", 4, present)
         IN  /\ search' = r
             /\ IF r.el = 0
                THEN /\ Throw(853, "TimeoutException",
                              NavCatches("TimeoutException"))
                     /\ UNCHANGED trace
                ELSE IF ~cmdOk
                THEN /\ Throw(855, "WebDriverException",
                              NavCatches("WebDriverException"))
                     /\ UNCHANGED trace
                ELSE /\ trace' = Append(trace, "save_click")
                     /\ pc' = Then("nav_save")
                     /\ UNCHANGED failVars
    /\ UNCHANGED <<mailVars, typedPassword, otpEntry, envVars, argVars,
                   driver, tried, typedEmail, imapVars, exitVars>>

\* lines 259-269: wait for a login page or field; the TimeoutException of
\* the wait is caught and only logged
soft_check ==
    /\ pc = "soft_check"
    /\ otpEntry' = NoEntry
    /\ \E seen \in BOOLEAN :
         /\ trace' = Append(trace, "soft_check")
         /\ pc' = Then("soft_check")
    /\ UNCHANGED <<mailVars, typedPassword, envVars, argVars, driver, tried,
                   search, typedEmail, imapVars, failVars, exitVars>>

\* variant of the test of line 272: only the Chrome driver is quit
QuitNeeded_chrome_only(d) == d = "chrome"

\* line 272: if driver is not None
QuitNeeded(d) == d # None

\* lines 271-275: the finally block of click_naukri_login
finally ==
    /\ pc = "finally"
    /\ otpEntry' = NoEntry
    /\ trace' = IF QuitNeeded(driver) THEN Append(trace, "quit") ELSE trace
    /\ pc' = "main_return"
    /\ UNCHANGED <<mailVars, typedPassword, envVars, argVars, driver, tried,
                   search, typedEmail, imapVars, failVars, exitVars>>

\* variant of line 895: return 1
MainResult_one == ExitUncaught

\* line 895: what main returns after click_naukri_login returned
MainResult == ExitOk

\* lines 886-895: click_naukri_login returned, main returns 0; an exception
\* of click_naukri_login leaves main
main_return ==
    /\ pc = "main_return"
    /\ mainRet' = IF exc = None THEN <<MainResult>> ELSE mainRet
    /\ pc' = "exit"
    /\ UNCHANGED <<mailVars, typedPassword, otpEntry, envVars, argVars,
                   driver, tried, trace, search, typedEmail, imapVars,
                   failVars, exitCode>>

\* line 899: raise SystemExit(main()); an uncaught exception ends the
\* interpreter with code 1
exit ==
    /\ pc = "exit"
    /\ exitCode' = IF mainRet = <<>> THEN <<ExitUncaught>> ELSE mainRet
    /\ pc' = "done"
    /\ UNCHANGED <<mailVars, typedPassword, otpEntry, envVars, argVars,
                   driver, tried, trace, search, typedEmail, imapVars,
                   failVars, mainRet>>

Next ==
    \/ main
    \/ create_driver
    \/ load_start_page
    \/ locate_login
    \/ start_otp_login
    \/ fetch_otp_via_imap
    \/ poll
    \/ poll_timeout
    \/ fill_otp
    \/ nav_profile
    \/ nav_edit
    \/ nav_save
    \/ soft_check
    \/ finally
    \/ main_return
    \/ exit

Spec == Init /\ [][Next]_vars

\* The look at the mailbox on its own: the script stands in the last
\* iteration of the polling loop, the earlier polls having found no code,
\* and meets one of the mailboxes under one setting of the hints.
MailInit ==
    /\ env = [NAUKRI_EMAIL |-> "me@example.com", NAUKRI_PASSWORD |-> "app-pass"]
    /\ timeout = 20
    /\ pc = "poll"
    /\ email = "me@example.com"
    /\ password = "app-pass"
    /\ called = TRUE
    /\ driver = "chrome"
    /\ tried = <<Created("chrome")>>
    /\ trace = <<"get_start", "otp_requested">>
    /\ search = SearchRecord("email", 4, {1})
    /\ typedEmail = "me@example.com"
    /\ imapLogins = {<<"me@example.com", "app-pass">>}
    /\ imapOpened = TRUE
    /\ now = 11 * PollInterval
    /\ end_time = Deadline(0, Max(MinOtpTimeout, 20))
    /\ last_error = None
    /\ lastPoll = "no_code"
    /\ body = <<>>
    /\ otp = <<>>
    /\ failedAt = 0
    /\ raised = None
    /\ exc = None
    /\ mainRet = <<>>
    /\ exitCode = <<>>
    /\ mailbox \in Mailboxes
    /\ sender_hint \in SenderHints
    /\ subject_hint \in SubjectHints
    /\ scan = NoScan
    /\ typedPassword = None
    /\ otpEntry = NoEntry

MailNext ==
    \/ mail_poll
    \/ poll_timeout

MailSpec == MailInit /\ [][MailNext]_vars

\* the script is single-threaded and every call returns: a step that can be
\* taken is taken
FairSpec == Spec /\ WF_vars(Next)

TypeOK ==
    /\ pc \in {"main", "create_driver", "load_start_page", "locate_login",
               "start_otp_login", "fetch_otp_via_imap", "poll", "fill_otp",
               "nav_profile", "nav_edit", "nav_save", "soft_check", "finally",
               "main_return", "exit", "done"}
    /\ driver \in {None, "chrome", "safari"}
    /\ called \in BOOLEAN
    /\ now \in Nat
    /\ end_time \in Nat

\* ----------------------------------------------------------------- claims
InTrace(e) == \E i \in DOMAIN trace : trace[i] = e
Count(e) == Cardinality({i \in DOMAIN trace : trace[i] = e})
LastIs(e) == trace # <<>> /\ trace[Len(trace)] = e
AfterFinally == pc \in {"main_return", "exit", "done"}

CredsUnsetOrEmpty ==
    \/ env.NAUKRI_EMAIL \in {Unset, ""}
    \/ env.NAUKRI_PASSWORD \in {Unset, ""}

\* C1: when NAUKRI_EMAIL or NAUKRI_PASSWORD is unset or empty, main returns
\* 2 and click_naukri_login is never called: no driver is created, no page
\* is loaded, no IMAP connection is opened.
C1_MissingCredentialsReturn2 ==
    CredsUnsetOrEmpty =>
        /\ ~called
        /\ driver = None
        /\ trace = <<>>
        /\ ~imapOpened
        /\ imapLogins = {}
        /\ pc \in {"main", "exit", "done"}
        /\ (pc # "main" => mainRet = <<2>>)
        /\ (pc = "done" => exitCode = <<2>>)

C1_Witness == CredsUnsetOrEmpty /\ pc = "done" /\ mainRet = <<2>> /\ ~called

\* C2: once a driver was created (Chrome or Safari), driver.quit() is called
\* exactly once before click_naukri_login exits, however it exits, nothing
\* is done with the browser after the quit, and there is no quit before the
\* finally block.
C2_QuitExactlyOnce ==
    driver # None =>
        IF AfterFinally THEN Count("quit") = 1 /\ LastIs("quit")
        ELSE Count("quit") = 0

C2_Witness ==
    /\ pc = "done"
    /\ driver = "safari"
    /\ exc = "WebDriverException"
    /\ Count("quit") = 1

\* the steps of a run in their stated order; both ways of getting to the
\* profile page are the profile navigation
Kind(e) == IF e \in {"profile_click", "profile_get"} THEN "profile_nav" ELSE e
Chain == <<"get_start", "otp_requested", "otp_fetched", "otp_filled",
           "profile_nav", "edit_click", "save_click">>

\* C3: the steps happen only in the linear order start page, OTP request,
\* OTP fetched, OTP entered, profile navigation, edit click, Save click:
\* each is preceded by the one before it, and no step happens twice.
C3_LinearOrder ==
    /\ \A i, j \in DOMAIN trace : Kind(trace[i]) = Kind(trace[j]) => i = j
    /\ \A c \in 2..Len(Chain) : \A p \in DOMAIN trace :
         Kind(trace[p]) = Chain[c] =>
             \E q \in 1..(p - 1) : Kind(trace[q]) = Chain[c - 1]

C3_Witness == pc = "done" /\ InTrace("save_click") /\ InTrace("login_click")

\* C4: the email typed by start_otp_login and the user and password given
\* to the IMAP login are the values of NAUKRI_EMAIL and NAUKRI_PASSWORD, and
\* these are set and non-empty.
C4_CredentialsNonEmpty ==
    /\ typedEmail # None =>
           typedEmail = env.NAUKRI_EMAIL /\ typedEmail \notin {"", Unset}
    /\ \A l \in imapLogins :
           /\ l[1] = env.NAUKRI_EMAIL /\ l[1] \notin {"", Unset}
           /\ l[2] = env.NAUKRI_PASSWORD /\ l[2] \notin {"", Unset}

C4_Witness ==
    typedEmail = "me@example.com" /\ <<"me@example.com", "app-pass">> \in imapLogins

\* C5: main returns 0 whenever both credentials are non-empty and
\* click_naukri_login returned without raising, and main returns nothing
\* but 0 and 2.
C5_MainReturns0 ==
    /\ mainRet \in {<<>>, <<0>>, <<2>>}
    /\ (pc \in {"exit", "done"} /\ called /\ exc = None) => mainRet = <<0>>

C5_Witness == pc = "exit" /\ called /\ exc = None /\ mainRet = <<0>>

\* the failures the claim names, by the line that raises: no driver (135,
\* 141, 145), login control not located (213), the OTP login flow (313, 318, 343,
\* 405, 419, 437, 442)
OtpLoginLines == {313, 318, 343, 405, 419, 437, 442}
ClaimedFailures == {135, 141, 145, 213} \cup OtpLoginLines

\* C6 as stated: whenever the flow fails (no driver, login control not
\* located, OTP login flow fails) the failure reaches main and the process
\* does not exit with code 0.
C6_FailuresPropagate ==
    (pc = "done" /\ failedAt \in ClaimedFailures) =>
        exc # None /\ exitCode # <<0>>

\* C6 amended: these failures reach main and the exit code is not 0, except
\* a TimeoutException of the OTP login flow, which is caught in
\* click_naukri_login and leaves the exit code 0.
C6_UncaughtFailuresPropagate ==
    (pc = "done" /\ failedAt \in ClaimedFailures) =>
        IF raised = "TimeoutException" /\ failedAt \in OtpLoginLines
        THEN exc = None /\ mainRet = <<0>> /\ exitCode = <<0>>
        ELSE exc = raised /\ mainRet = <<>> /\ exitCode = <<1>>

C6_Witness == pc = "done" /\ failedAt = 145 /\ exitCode = <<1>>

\* a 6-digit code stands at position i of a body
SixAt(b, i) ==
    /\ i + 5 <= Len(b)
    /\ \A j \in i..(i + 5) : b[j] \in {"1", "2"}
    /\ (i = 1 \/ b[i - 1] = " ")
    /\ (i + 5 = Len(b) \/ b[i + 6] = " ")

HasSix(b) == \E i \in DOMAIN b : SixAt(b, i)

FirstSix(b) ==
    LET i == CHOOSE k \in DOMAIN b : SixAt(b, k) /\ \A m \in 1..(k - 1) : ~SixAt(b, m)
    IN  SubSeq(b, i, i + 5)

\* C7: every code fetch_otp_via_imap returns has between 6 and 8 decimal
\* digits, and when the body of the message holds a 6-digit code the code
\* returned is the first 6-digit code of that body.
C7_SixToEightDigits ==
    otp # <<>> =>
        /\ Len(otp) \in 6..8
        /\ \A i \in DOMAIN otp : otp[i] \in {"1", "2"}
        /\ (body # <<>> /\ HasSix(body)) => otp = FirstSix(body)

\* the five required elements, the length of each one's locator list and
\* the line that raises the TimeoutException when it is missing
RequiredSteps == {"login", "email", "single", "edit", "save"}
ListLength(step) == IF step \in {"single", "edit"} THEN 2 ELSE 4
RaiseLine(step) ==
    CASE step = "login" -> 213
      [] step = "email" -> 313
      [] step = "single" -> 437
      [] step = "edit" -> 826
      [] step = "save" -> 853

\* C8: for the login link, the OTP email field, the single OTP field, the
\* edit icon and the Save button, the locators are tried in list order, the
\* first one that finds an element ends the search, and the TimeoutException
\* of the step is raised if and only if every locator of the list timed out.
C8_TimeoutAfterAllLocators ==
    search.step \in RequiredSteps =>
        LET t == search.tried
            k == Len(t)
            allTimedOut == k = ListLength(search.step) /\
                           \A i \in 1..k : t[i][2] = "timeout"
        IN  /\ k \in 1..ListLength(search.step)
            /\ \A i \in 1..k : t[i][1] = i
            /\ \A i \in 1..(k - 1) : t[i][2] = "timeout"
            /\ t[k][2] = "found" => search.el = k
            /\ t[k][2] = "timeout" => search.el = 0 /\ allTimedOut
            /\ (raised = "TimeoutException" /\ failedAt = RaiseLine(search.step))
                   <=> allTimedOut

C8_Witness ==
    /\ search.step = "save"
    /\ Len(search.tried) = 4
    /\ search.el = 0
    /\ raised = "TimeoutException"
    /\ failedAt = 853

OtpTimeoutLines == {313, 343, 405, 437}
NavTimeoutLines == {826, 853}

\* C9: a TimeoutException of start_otp_login, fetch_otp_via_imap or fill_otp
\* is caught in click_naukri_login: the later steps of the OTP flow (fetch,
\* OTP entry, profile navigation, edit, save) do not happen, the soft check
\* runs, the driver is quit and click_naukri_login returns normally (main
\* returns 0); a TimeoutException of navigate_profile_and_save is caught as
\* well and does not propagate.
C9_TimeoutCaught ==
    (raised = "TimeoutException" /\ failedAt \in OtpTimeoutLines \cup NavTimeoutLines) =>
        /\ exc = None
        /\ pc \in {"soft_check", "finally", "main_return", "exit", "done"}
        /\ failedAt \in {313, 343} => ~InTrace("otp_fetched") /\ ~imapOpened
        /\ failedAt \in OtpTimeoutLines =>
               \A e \in {"otp_filled", "profile_click", "profile_get",
                         "edit_click", "save_click"} : ~InTrace(e)
        /\ failedAt = 826 => ~InTrace("edit_click")
        /\ failedAt \in NavTimeoutLines => ~InTrace("save_click")
        /\ pc # "soft_check" => Count("soft_check") = 1
        /\ AfterFinally => LastIs("quit")
        /\ pc \in {"exit", "done"} => mainRet = <<0>>

C9_Witness ==
    /\ pc = "done"
    /\ raised = "TimeoutException"
    /\ failedAt = 437
    /\ InTrace("otp_fetched")
    /\ mainRet = <<0>>

\* a step of the polling loop: while the deadline has not passed it is a
\* poll, which returns a code or sleeps at least poll_interval and stays in
\* the loop, an exception being recorded in last_error and not raised; once
\* the deadline has passed it is the raise of the TimeoutException
PollStep ==
    IF now < end_time
    THEN \/ /\ pc' = "fill_otp"
            /\ lastPoll' = "code"
            /\ otp' # <<>>
            /\ UNCHANGED failVars
         \/ /\ pc' = "poll"
            /\ lastPoll' \in {"error", "no_code"}
            /\ lastPoll' = "error" => last_error' = "error"
            /\ now' >= now + 5
            /\ end_time' = end_time
            /\ UNCHANGED <<failVars, otp>>
    ELSE /\ raised' = "TimeoutException"
         /\ failedAt' = 405
         /\ pc' # "poll"
         /\ UNCHANGED otp

\* C10: the polling loop of fetch_otp_via_imap always ends, with a code or
\* with the TimeoutException once the deadline of max(15, timeout) seconds
\* has passed (timeout being max(60, args.timeout)); an exception during a
\* poll is recorded as the last error and not propagated, and is followed by
\* a sleep of poll_interval and another poll while the deadline has not
\* passed, as is a poll that finds no code.
C10_PollingTerminates ==
    /\ [](pc = "poll" => <>(pc # "poll"))
    /\ [](pc = "poll" => end_time = (IF timeout >= 60 THEN timeout ELSE 60))
    /\ [][pc = "poll" => PollStep]_vars

C10_Witness ==
    /\ pc = "soft_check"
    /\ raised = "TimeoutException"
    /\ failedAt = 405
    /\ lastPoll = "error"


\* ---- C11
Scanned == scan # NoScan
UnseenFound ==
    IF mailbox.unseenOk THEN IdList(mailbox.unseen, Len(mailbox.msgs)) ELSE <<>>
Reversed(q) == [i \in 1..Len(q) |-> q[Len(q) + 1 - i]]
IsPrefix(p, q) == Len(p) <= Len(q) /\ SubSeq(q, 1, Len(p)) = p

\* "contains", whatever the case of the letters
ContainsAnyCase(text, sub) == Contains(lower(text), lower(sub))
SubjectHintList == IF subject_hint = <<>> THEN {} ELSE Range(split(subject_hint, "|"))
\* a sender hint is given, the From header does not contain it, and the
\* subject contains none of the subject hints
SkipExpected(msg) ==
    /\ sender_hint # <<>>
    /\ ~ContainsAnyCase(msg.from, sender_hint)
    /\ \A h \in SubjectHintList : ~ContainsAnyCase(msg.subject, h)
\* positions in the newest-first candidate list of the messages that are
\* obtained, not to be skipped and hold a 4-to-8 digit number
Winners ==
    {k \in 1..Len(scan.ids) :
        LET id == Reversed(scan.ids)[k]
        IN  /\ id \notin mailbox.badFetch
            /\ ~SkipExpected(mailbox.msgs[id])
            /\ ExtractCode(mailbox.msgs[id].body) # <<>>}
FirstWinner == CHOOSE k \in Winners : \A j \in Winners : k <= j

\* C11: within one poll UNSEEN messages are looked at first and the last 10
\* of ALL only when the UNSEEN search returned no ids; the candidates are
\* examined newest first; an examined message is skipped exactly when a
\* sender hint is given, From does not contain it and the subject contains
\* none of the '|'-separated subject hints; the code returned is that of
\* the first examined, non-skipped message with a 4-to-8 digit number, and
\* no older message is examined after it.
C11_MailboxScan ==
    Scanned =>
        /\ scan.all = (UnseenFound = <<>>)
        /\ scan.ids = IF UnseenFound # <<>> THEN UnseenFound
                      ELSE IF mailbox.allOk
                      THEN LastOf(IdList(1..Len(mailbox.msgs), Len(mailbox.msgs)),
                                  RecentCount)
                      ELSE <<>>
        /\ IsPrefix(scan.fetched, Reversed(scan.ids))
        /\ \A k \in DOMAIN scan.fetched :
              LET id == scan.fetched[k]
              IN  id \notin mailbox.badFetch =>
                    (id \in scan.skipped <=> SkipExpected(mailbox.msgs[id]))
        /\ IF Winners = {}
           THEN scan.id = 0 /\ scan.code = <<>> /\ scan.fetched = Reversed(scan.ids)
           ELSE /\ scan.id = Reversed(scan.ids)[FirstWinner]
                /\ scan.code = ExtractCode(mailbox.msgs[scan.id].body)
                /\ Len(scan.fetched) = FirstWinner


\* ---- C12
\* C12: in navigate_profile_and_save, when no profile-link locator finds an
\* element the profile URL is loaded and nothing is raised for the missing
\* link; the edit icon is clicked before the Save button; when the edit
\* icon is not found a TimeoutException is raised (line 826) and the Save
\* button is neither searched for nor clicked in that run.
C12_ProfileEditSave ==
    /\ (search.step = "profile" /\ search.el = 0) =>
          /\ Len(search.tried) = 3
          /\ raised # "TimeoutException"
          /\ ~InTrace("profile_click")
          /\ IF raised = None THEN LastIs("profile_get")
             ELSE failedAt = 806 /\ raised = "WebDriverException"
    /\ (search.step = "profile" /\ search.el # 0) => ~InTrace("profile_get")
    /\ \A i \in DOMAIN trace :
          trace[i] = "save_click" =>
              \E j \in 1..(i - 1) : trace[j] = "edit_click"
    /\ (search.step = "edit" /\ search.el = 0) =>
          failedAt = 826 /\ raised = "TimeoutException"
    /\ failedAt = 826 =>
          /\ raised = "TimeoutException"
          /\ search.step = "edit" /\ search.el = 0
          /\ ~InTrace("edit_click")
          /\ ~InTrace("save_click")

\* a finished run that loaded the profile URL and did not find the edit icon
C12_Witness ==
    /\ pc = "done"
    /\ InTrace("profile_get")
    /\ failedAt = 826
    /\ search.step = "edit"


\* ---- C13
DriversCreated == {i \in DOMAIN tried : Len(tried[i]) = 1}
SafariTried == \E i \in DOMAIN tried : tried[i][1] = "safari"

\* C13: Chrome is tried first and a Safari driver is created only when the
\* creation of the Chrome driver raised a WebDriverException; at most one
\* driver exists per run; when the creation of the Safari driver raises a
\* WebDriverException too, it propagates out of click_naukri_login with no
\* page loaded and no driver.quit().
C13_DriverFallback ==
    /\ tried # <<>> => tried[1][1] = "chrome"
    /\ SafariTried =>
          /\ Len(tried) = 2
          /\ tried[1] = Failed("chrome", "WebDriverException")
          /\ tried[2][1] = "safari"
    /\ Cardinality(DriversCreated) <= 1
    /\ driver = "chrome" <=> tried = <<Created("chrome")>>
    /\ driver = "safari" <=>
          tried = <<Failed("chrome", "WebDriverException"), Created("safari")>>
    /\ tried = <<Failed("chrome", "WebDriverException"),
                 Failed("safari", "WebDriverException")>>
          <=> failedAt = 145
    /\ failedAt = 145 =>
          /\ raised = "WebDriverException"
          /\ exc = "WebDriverException"
          /\ driver = None
          /\ trace = <<>>
          /\ pc \in {"finally", "main_return", "exit", "done"}
          /\ mainRet = <<>>
          /\ exitCode \in {<<>>, <<ExitUncaught>>}

\* a finished run in which neither driver could be created
C13_Witness ==
    /\ pc = "done"
    /\ tried = <<Failed("chrome", "WebDriverException"),
                 Failed("safari", "WebDriverException")>>
    /\ driver = None
    /\ trace = <<>>
    /\ exc = "WebDriverException"


\* ---- C14
CredentialSteps == {"fill_credentials", "click_login_submit", "google_sign_in"}

\* C14: on every path from main the account password is used only as the
\* IMAP login password and is never typed into a browser element:
\* fill_credentials, click_login_submit and google_sign_in are never
\* invoked, and what is typed into the site is the email and the OTP.
C14_PasswordOnlyForImap ==
    /\ typedPassword = None
    /\ \A e \in CredentialSteps : ~InTrace(e)
    /\ \A l \in imapLogins :
          l = <<email, password>> /\ password = env.NAUKRI_PASSWORD
    /\ typedEmail \in {None, email}
    /\ typedEmail # None => typedEmail # password
    /\ InTrace("otp_filled") => InTrace("otp_requested") /\ InTrace("otp_fetched")
    /\ \A e \in {"profile_click", "profile_get", "edit_click", "save_click"} :
          InTrace(e) => InTrace("otp_filled")

\* a finished run that logged in to IMAP with the password, filled the OTP
\* and saved the profile
C14_Witness ==
    /\ pc = "done"
    /\ password = "app-pass"
    /\ imapLogins = {<<"me@example.com", "app-pass">>}
    /\ typedEmail = "me@example.com"
    /\ InTrace("otp_filled")
    /\ InTrace("save_click")


\* ---- C15
OtpEntered == otpEntry # NoEntry
EnteredDigits == strip(otp)
VerifyRan == Len(otpEntry.verify.tried) > 0

\* C15: fill_otp takes the multi-input path exactly when at least one OTP
\* input was found and the inputs found are at least as many as the
\* characters of the stripped code; it then sends character i of the code
\* to input i and nothing else to any input.  Otherwise the whole code goes
\* to the one single OTP field, with a TimeoutException when no locator
\* finds that field.  In both paths, when no verify locator becomes
\* clickable fill_otp returns normally without a click.
C15_FillOtp ==
    OtpEntered =>
        /\ otpEntry.path \in {"multi", "single"}
        /\ otpEntry.path = "multi" <=>
              (otpEntry.inputs > 0 /\ otpEntry.inputs >= Len(EnteredDigits))
        /\ otpEntry.path = "multi" =>
              /\ Len(otpEntry.sent) = otpEntry.inputs
              /\ \A i \in DOMAIN otpEntry.sent :
                    IF i > Len(otp) THEN otpEntry.sent[i] = <<>>
                    ELSE IF raised = None THEN otpEntry.sent[i] = <<otp[i]>>
                    ELSE otpEntry.sent[i] \in {<<>>, <<otp[i]>>}
              /\ raised # None =>
                    failedAt = 419 /\ raised = "WebDriverException"
        /\ otpEntry.path = "single" =>
              /\ search.step = "single"
              /\ search.el = 0 <=> failedAt = 437
              /\ failedAt = 437 =>
                    /\ raised = "TimeoutException"
                    /\ Len(search.tried) = 2
                    /\ otpEntry.sent = <<>>
              /\ raised = None => otpEntry.sent = <<otp>>
              /\ raised # None => otpEntry.sent = <<>> /\ failedAt \in {437, 442}
        /\ raised = None <=> VerifyRan
        /\ (VerifyRan /\ otpEntry.verify.el = 0) =>
              /\ Len(otpEntry.verify.tried) = 3
              /\ \A k \in 1..3 : otpEntry.verify.tried[k] = <<k, "timeout">>
              /\ raised = None /\ failedAt = 0
              /\ pc = "nav_profile"
              /\ LastIs("otp_filled")

\* fill_otp gave the four digits of the code to the first four of six
\* boxes, found no verify button to click and returned
C15_Witness ==
    /\ pc = "nav_profile"
    /\ otpEntry.path = "multi"
    /\ otpEntry.inputs = 6
    /\ Len(otp) = 4
    /\ otpEntry.sent[4] = <<otp[4]>>
    /\ otpEntry.sent[5] = <<>>
    /\ otpEntry.verify.el = 0
    /\ Len(otpEntry.verify.tried) = 3

====
